---- MODULE Spec2Model ----
(***************************************************************************)
(* Model of src/src/components/SnakeGame.tsx: the SnakeGame component's    *)
(* state (gameState, snake, food, direction, score) and its three event    *)
(* handlers: startGame (button), gameLoop (interval tick) and              *)
(* handleKeyPress (keydown).  Handlers run one at a time on the browser's  *)
(* event queue, each on the latest committed state.                        *)
(***************************************************************************)
EXTENDS Integers, Sequences, FiniteSets, TLC

\* ---- program constants (SnakeGame.tsx:5-8) ----
GRID_SIZE == 20
INITIAL_SNAKE == << [x |-> 10, y |-> 10] >>
INITIAL_FOOD == [x |-> 15, y |-> 15]
INITIAL_DIRECTION == [x |-> 0, y |-> -1]

\* ---- bounds of the model ----
\* longest snake explored: an eating tick is taken only below this length
MaxLen == 3
\* Math.random() is explored at the values k / RandomLevels, k in 0..RandomLevels-1
RandomLevels == 2

VARIABLES
    gameState,   \* 'menu' | 'playing' | 'paused' | 'gameOver'
    snake,       \* sequence of positions, head first
    food,        \* position
    direction,   \* position used as a vector
    score,       \* number
    lastEvent,   \* history: the handler that ran last (Space apart from other keys)
    applied,     \* history: the direction the last moving tick of this game applied
    genPc,       \* position inside generateFood: "idle" (not running), "draw" or "test"
    newFood,     \* the local newFood of generateFood
    ticks        \* history: the gameLoop calls of a key-free run made while playing

vars == << gameState, snake, food, direction, score, lastEvent, applied,
           genPc, newFood, ticks >>

\* the component's state as one value
State ==
    [gameState |-> gameState, snake |-> snake, food |-> food,
     direction |-> direction, score |-> score]

NoDir == [x |-> 0, y |-> 0]
\* newFood before its first assignment
NoFood == [x |-> -1, y |-> -1]

UpKeys == {"ArrowUp", "w", "W"}
DownKeys == {"ArrowDown", "s", "S"}
LeftKeys == {"ArrowLeft", "a", "A"}
RightKeys == {"ArrowRight", "d", "D"}
MoveKeys == UpKeys \cup DownKeys \cup LeftKeys \cup RightKeys
\* the keys delivered to the handler: movement keys, Space and two unbound keys
Keys == MoveKeys \cup {" ", "Enter", "x"}

\* the segments of a body, as a set
Segments(body) == {body[i] : i \in 1..Len(body)}

\* Math.floor(Math.random() * GRID_SIZE)
RandomCoord == {(k * GRID_SIZE) \div RandomLevels : k \in 0..(RandomLevels - 1)}

\* generateFood without the rejection test of the loop
generateFood_noReject(snakeBody) ==
    {[x |-> a, y |-> b] : a \in RandomCoord, b \in RandomCoord}

\* generateFood(snakeBody): the positions the do-while loop can return, i.e.
\* the draws that are on no segment (no result when every draw is rejected)
generateFood(snakeBody) ==
    {[x |-> a, y |-> b] : a \in RandomCoord, b \in RandomCoord} \ Segments(snakeBody)

\* resetGame that forgets setScore
resetGame_keepScore(s) ==
    [s EXCEPT !.snake = INITIAL_SNAKE,
              !.food = INITIAL_FOOD,
              !.direction = INITIAL_DIRECTION]

\* resetGame that forgets setDirection
resetGame_keepDirection(s) ==
    [s EXCEPT !.snake = INITIAL_SNAKE,
              !.food = INITIAL_FOOD,
              !.score = 0]

\* resetGame(): the four setters
resetGame(s) ==
    [s EXCEPT !.snake = INITIAL_SNAKE,
              !.food = INITIAL_FOOD,
              !.direction = INITIAL_DIRECTION,
              !.score = 0]

\* startGame(): resetGame then setGameState('playing')
startGame(s) ==
    [resetGame(s) EXCEPT !.gameState = "playing"]

\* head of the updater: copy of currentSnake[0] moved by direction
MovedHead(s) ==
    [x |-> s.snake[1].x + s.direction.x, y |-> s.snake[1].y + s.direction.y]

\* the wall test with > in place of >=
HitsWall_offByOne(head) ==
    head.x < 0 \/ head.x > GRID_SIZE \/ head.y < 0 \/ head.y > GRID_SIZE

\* the wall test of gameLoop
HitsWall(head) ==
    head.x < 0 \/ head.x >= GRID_SIZE \/ head.y < 0 \/ head.y >= GRID_SIZE

\* the self collision test that skips the tail segment
HitsSelf_skipTail(body, head) ==
    \E i \in 1..(Len(body) - 1) : body[i].x = head.x /\ body[i].y = head.y

\* the self collision test of gameLoop: newSnake.some(...)
HitsSelf(body, head) ==
    \E i \in 1..Len(body) : body[i].x = head.x /\ body[i].y = head.y

\* the food test that compares x only
EatsFood_xOnly(s, head) ==
    head.x = s.food.x

\* the food test of gameLoop
EatsFood(s, head) ==
    head.x = s.food.x /\ head.y = s.food.y

\* gameLoop that drops the last segment on an eating tick too
gameLoop_popAlways(s) ==
    IF s.gameState # "playing" THEN {s}
    ELSE LET head == MovedHead(s) IN
         IF HitsWall(head) THEN {[s EXCEPT !.gameState = "gameOver"]}
         ELSE IF HitsSelf(s.snake, head) THEN {[s EXCEPT !.gameState = "gameOver"]}
         ELSE LET newSnake == << head >> \o s.snake
                  popped == SubSeq(newSnake, 1, Len(newSnake) - 1) IN
              IF EatsFood(s, head)
              THEN {[s EXCEPT !.snake = popped, !.score = @ + 10, !.food = f] :
                        f \in generateFood(newSnake)}
              ELSE {[s EXCEPT !.snake = popped]}

\* gameLoop without its first line, the gameState guard
gameLoop_noGuard(s) ==
    LET head == MovedHead(s) IN
    IF HitsWall(head) THEN {[s EXCEPT !.gameState = "gameOver"]}
    ELSE IF HitsSelf(s.snake, head) THEN {[s EXCEPT !.gameState = "gameOver"]}
    ELSE LET newSnake == << head >> \o s.snake IN
         IF EatsFood(s, head)
         THEN {[s EXCEPT !.snake = newSnake, !.score = @ + 10, !.food = f] :
                   f \in generateFood(newSnake)}
         ELSE {[s EXCEPT !.snake = SubSeq(newSnake, 1, Len(newSnake) - 1)]}

\* gameLoop(): the set of states one tick can commit
gameLoop(s) ==
    IF s.gameState # "playing" THEN {s}
    ELSE LET head == MovedHead(s) IN
         IF HitsWall(head) THEN {[s EXCEPT !.gameState = "gameOver"]}
         ELSE IF HitsSelf(s.snake, head) THEN {[s EXCEPT !.gameState = "gameOver"]}
         ELSE LET newSnake == << head >> \o s.snake IN
              IF EatsFood(s, head)
              THEN {[s EXCEPT !.snake = newSnake, !.score = @ + 10, !.food = f] :
                        f \in generateFood(newSnake)}
              ELSE {[s EXCEPT !.snake = SubSeq(newSnake, 1, Len(newSnake) - 1)]}

\* the four movement cases of the switch, used by the variants below
Turn(s, key) ==
    IF key \in UpKeys THEN
        IF s.direction.y = 0 THEN [s EXCEPT !.direction = [x |-> 0, y |-> -1]] ELSE s
    ELSE IF key \in DownKeys THEN
        IF s.direction.y = 0 THEN [s EXCEPT !.direction = [x |-> 0, y |-> 1]] ELSE s
    ELSE IF key \in LeftKeys THEN
        IF s.direction.x = 0 THEN [s EXCEPT !.direction = [x |-> -1, y |-> 0]] ELSE s
    ELSE IF key \in RightKeys THEN
        IF s.direction.x = 0 THEN [s EXCEPT !.direction = [x |-> 1, y |-> 0]] ELSE s
    ELSE s

\* handleKeyPress whose paused branch never matches Space
handleKeyPress_noResume(s, key) ==
    IF s.gameState = "playing" THEN
        IF key = " " THEN [s EXCEPT !.gameState = "paused"] ELSE Turn(s, key)
    ELSE s

\* handleKeyPress whose movement cases are outside the playing test
handleKeyPress_moveAnywhere(s, key) ==
    IF key \in MoveKeys THEN Turn(s, key)
    ELSE IF s.gameState = "playing" /\ key = " " THEN [s EXCEPT !.gameState = "paused"]
    ELSE IF s.gameState = "paused" /\ key = " " THEN [s EXCEPT !.gameState = "playing"]
    ELSE s

\* handleKeyPress whose movement cases also run while paused
handleKeyPress_movePaused(s, key) ==
    IF s.gameState = "playing" THEN
        IF key = " " THEN [s EXCEPT !.gameState = "paused"] ELSE Turn(s, key)
    ELSE IF s.gameState = "paused" THEN
        IF key = " " THEN [s EXCEPT !.gameState = "playing"] ELSE Turn(s, key)
    ELSE s

\* handleKeyPress with the axis tests exchanged
handleKeyPress_swappedAxis(s, key) ==
    IF s.gameState = "playing" THEN
        IF key \in UpKeys THEN
            IF s.direction.x = 0 THEN [s EXCEPT !.direction = [x |-> 0, y |-> -1]] ELSE s
        ELSE IF key \in DownKeys THEN
            IF s.direction.x = 0 THEN [s EXCEPT !.direction = [x |-> 0, y |-> 1]] ELSE s
        ELSE IF key \in LeftKeys THEN
            IF s.direction.y = 0 THEN [s EXCEPT !.direction = [x |-> -1, y |-> 0]] ELSE s
        ELSE IF key \in RightKeys THEN
            IF s.direction.y = 0 THEN [s EXCEPT !.direction = [x |-> 1, y |-> 0]] ELSE s
        ELSE IF key = " " THEN [s EXCEPT !.gameState = "paused"]
        ELSE s
    ELSE IF s.gameState = "paused" /\ key = " " THEN [s EXCEPT !.gameState = "playing"]
    ELSE s

\* handleKeyPress whose Space case toggles outside the playing test
handleKeyPress_spaceAnywhere(s, key) ==
    IF key = " " THEN
        [s EXCEPT !.gameState = IF @ = "paused" THEN "playing" ELSE "paused"]
    ELSE IF s.gameState = "playing" THEN
        IF key \in UpKeys THEN
            IF s.direction.y = 0 THEN [s EXCEPT !.direction = [x |-> 0, y |-> -1]] ELSE s
        ELSE IF key \in DownKeys THEN
            IF s.direction.y = 0 THEN [s EXCEPT !.direction = [x |-> 0, y |-> 1]] ELSE s
        ELSE IF key \in LeftKeys THEN
            IF s.direction.x = 0 THEN [s EXCEPT !.direction = [x |-> -1, y |-> 0]] ELSE s
        ELSE IF key \in RightKeys THEN
            IF s.direction.x = 0 THEN [s EXCEPT !.direction = [x |-> 1, y |-> 0]] ELSE s
        ELSE s
    ELSE s

\* handleKeyPress(e)
handleKeyPress(s, key) ==
    IF s.gameState = "playing" THEN
        IF key \in UpKeys THEN
            IF s.direction.y = 0 THEN [s EXCEPT !.direction = [x |-> 0, y |-> -1]] ELSE s
        ELSE IF key \in DownKeys THEN
            IF s.direction.y = 0 THEN [s EXCEPT !.direction = [x |-> 0, y |-> 1]] ELSE s
        ELSE IF key \in LeftKeys THEN
            IF s.direction.x = 0 THEN [s EXCEPT !.direction = [x |-> -1, y |-> 0]] ELSE s
        ELSE IF key \in RightKeys THEN
            IF s.direction.x = 0 THEN [s EXCEPT !.direction = [x |-> 1, y |-> 0]] ELSE s
        ELSE IF key = " " THEN [s EXCEPT !.gameState = "paused"]
        ELSE s
    ELSE IF s.gameState = "paused" /\ key = " " THEN [s EXCEPT !.gameState = "playing"]
    ELSE s

\* the setters' effect: the next committed state
Commit(t) ==
    /\ gameState' = t.gameState
    /\ snake' = t.snake
    /\ food' = t.food
    /\ direction' = t.direction
    /\ score' = t.score

\* state after construction: the useState initial values
Init ==
    /\ gameState = "menu"
    /\ snake = INITIAL_SNAKE
    /\ food = INITIAL_FOOD
    /\ direction = INITIAL_DIRECTION
    /\ score = 0
    /\ lastEvent = "init"
    /\ applied = NoDir
    /\ genPc = "idle"
    /\ newFood = NoFood
    /\ ticks = 0

\* click on INITIALIZE GAME / RESTART SYSTEM; the buttons are rendered only
\* in the menu and gameOver screens
StartGame ==
    /\ gameState \in {"menu", "gameOver"}
    /\ Commit(startGame(State))
    /\ lastEvent' = IF gameState = "menu" THEN "start" ELSE "restart"
    /\ applied' = NoDir
    /\ UNCHANGED << genPc, newFood, ticks >>

\* one call of gameLoop by the interval
Tick ==
    /\ \E t \in gameLoop(State) :
          /\ Len(t.snake) <= MaxLen
          /\ Commit(t)
    /\ lastEvent' = "tick"
    /\ applied' = IF gameState = "playing" THEN direction ELSE applied
    /\ UNCHANGED << genPc, newFood, ticks >>

\* one keydown event
KeyPress ==
    \E key \in Keys :
        /\ Commit(handleKeyPress(State, key))
        /\ lastEvent' = IF key = " " THEN "space" ELSE "key"
        /\ UNCHANGED << applied, genPc, newFood, ticks >>

Next == StartGame \/ Tick \/ KeyPress

Spec == Init /\ [][Next]_vars

\* ---------------------------------------------------------------------
\* Key-free runs, with generateFood taken one loop iteration at a time
\* ---------------------------------------------------------------------

\* cells the grid is left with by the long snake the runs start from
FreeCells == 2

Directions ==
    {[x |-> 0, y |-> -1], [x |-> 0, y |-> 1], [x |-> -1, y |-> 0], [x |-> 1, y |-> 0]}

GridCells == {[x |-> a, y |-> b] : a, b \in 0..(GRID_SIZE - 1)}

\* the number of a cell in column order
Index(c) == c.x * GRID_SIZE + c.y

\* a closed tour of the grid: row 0 left to right, rows 1.. back and forth
\* over columns 1.., then column 0 upwards; Cycle(i+1) is next to Cycle(i)
Cycle(i) ==
    IF i < GRID_SIZE THEN [x |-> i, y |-> 0]
    ELSE IF i < GRID_SIZE + (GRID_SIZE - 1) * (GRID_SIZE - 1) THEN
        LET j == i - GRID_SIZE
            row == 1 + (j \div (GRID_SIZE - 1))
            c == j % (GRID_SIZE - 1)
        IN [x |-> IF row % 2 = 1 THEN GRID_SIZE - 1 - c ELSE 1 + c, y |-> row]
    ELSE LET k == i - (GRID_SIZE + (GRID_SIZE - 1) * (GRID_SIZE - 1))
         IN [x |-> 0, y |-> GRID_SIZE - 1 - k]

\* the snake that follows the tour with n segments, tail on Cycle(0)
CycleSnake(n) == [j \in 1..n |-> Cycle(n - j)]

\* the playing states the runs start from: every one-segment snake of a game
\* that has not eaten yet, with every direction, and a snake that has followed
\* the tour until FreeCells cells are left, about to eat on the next cell
RunStates ==
    {[gameState |-> "playing", snake |-> << c >>, food |-> INITIAL_FOOD,
      direction |-> d, score |-> 0] : c \in GridCells \ {INITIAL_FOOD}, d \in Directions}
    \cup
    {LET n == GRID_SIZE * GRID_SIZE - FreeCells IN
     [gameState |-> "playing", snake |-> CycleSnake(n), food |-> Cycle(n),
      direction |-> [x |-> Cycle(n).x - Cycle(n - 1).x, y |-> Cycle(n).y - Cycle(n - 1).y],
      score |-> 10 * (n - 1)]}

\* the first cell in column order that is not in segs, if there is one
FirstFree(segs) ==
    LET free == GridCells \ segs IN
    IF free = {} THEN {}
    ELSE {CHOOSE c \in free : \A d \in free : Index(c) <= Index(d)}

\* the draws explored in the loop: the sampled values of Math.random and,
\* so that a free cell can be drawn whenever there is one, the first free cell
DrawCells(snakeBody) ==
    {[x |-> a, y |-> b] : a \in RandomCoord, b \in RandomCoord}
        \cup FirstFree(Segments(snakeBody))

\* the loop test that leaves out the last segment
Rejected_skipLast(snakeBody, nf) ==
    \E i \in 1..(Len(snakeBody) - 1) : snakeBody[i].x = nf.x /\ snakeBody[i].y = nf.y

\* the loop test of generateFood: snakeBody.some(...)
Rejected(snakeBody, nf) ==
    \E i \in 1..Len(snakeBody) : snakeBody[i].x = nf.x /\ snakeBody[i].y = nf.y

\* newSnake after the unshift, the argument of generateFood
GrownSnake == << MovedHead(State) >> \o snake

\* the tick is an eating one: no collision and the head on the food
EatingTick ==
    /\ gameState = "playing"
    /\ ~HitsWall(MovedHead(State))
    /\ ~HitsSelf(snake, MovedHead(State))
    /\ EatsFood(State, MovedHead(State))

RunInit ==
    /\ \E s \in RunStates : /\ gameState = s.gameState /\ snake = s.snake
                            /\ food = s.food /\ direction = s.direction
                            /\ score = s.score
    /\ lastEvent = "init"
    /\ applied = NoDir
    /\ genPc = "idle"
    /\ newFood = NoFood
    /\ ticks = 0

\* one call of gameLoop by the interval, up to the call of generateFood
RunTick ==
    /\ genPc = "idle"
    /\ IF EatingTick
       THEN /\ genPc' = "draw"
            /\ UNCHANGED << gameState, snake, food, direction, score >>
       ELSE /\ \E t \in gameLoop(State) : Commit(t)
            /\ UNCHANGED genPc
    /\ lastEvent' = "tick"
    /\ applied' = IF gameState = "playing" THEN direction ELSE applied
    /\ ticks' = IF gameState = "playing" THEN ticks + 1 ELSE ticks
    /\ UNCHANGED newFood

\* the body of the do-while loop: one draw
GenDraw ==
    /\ genPc = "draw"
    /\ \E c \in DrawCells(GrownSnake) : newFood' = c
    /\ genPc' = "test"
    /\ UNCHANGED << gameState, snake, food, direction, score, lastEvent, applied, ticks >>

\* the while test; on exit generateFood returns and the tick commits
GenTest ==
    /\ genPc = "test"
    /\ IF Rejected(GrownSnake, newFood)
       THEN /\ genPc' = "draw"
            /\ UNCHANGED << gameState, snake, food, direction, score >>
       ELSE /\ genPc' = "idle"
            /\ Commit([State EXCEPT !.snake = GrownSnake, !.score = @ + 10,
                                    !.food = newFood])
    /\ UNCHANGED << newFood, lastEvent, applied, ticks >>

\* a draw that lands on a free cell
GenDrawFree == GenDraw /\ ~Rejected(GrownSnake, newFood')

RunNext == RunTick \/ GenDraw \/ GenTest

RunSpec == RunInit /\ [][RunNext]_vars

\* the interval keeps firing, the loop keeps running, and a sampler that can
\* draw a free cell again and again does draw one
FairRunSpec ==
    /\ RunSpec
    /\ WF_vars(RunTick) /\ WF_vars(GenDraw) /\ WF_vars(GenTest)
    /\ SF_vars(GenDrawFree)

\* ---------------------------------------------------------------------
\* Properties
\* ---------------------------------------------------------------------

\* the cell the next tick moves the head to
NextHead == [x |-> snake[1].x + direction.x, y |-> snake[1].y + direction.y]
InGrid(p) == p.x \in 0..(GRID_SIZE - 1) /\ p.y \in 0..(GRID_SIZE - 1)
OnSnake(p) == \E i \in 1..Len(snake) : snake[i] = p
Reverse(d) == [x |-> 0 - d.x, y |-> 0 - d.y]
SameAxis(d, e) == (d.x = 0) = (e.x = 0)
\* a step taken by gameLoop
TickStep == lastEvent' = "tick"
\* the vector a movement key stands for (spec, External Interfaces)
KeyVector(key) ==
    IF key \in {"ArrowUp", "w", "W"} THEN [x |-> 0, y |-> -1]
    ELSE IF key \in {"ArrowDown", "s", "S"} THEN [x |-> 0, y |-> 1]
    ELSE IF key \in {"ArrowLeft", "a", "A"} THEN [x |-> -1, y |-> 0]
    ELSE [x |-> 1, y |-> 0]

\* C1: within one game, the direction a tick applies is never the exact
\* reverse of the direction the preceding tick applied.
C1_NoReversalBetweenTicks ==
    [][(TickStep /\ gameState = "playing" /\ applied # NoDir)
          => direction # Reverse(applied)]_vars

\* C2: a tick in phase playing whose new head is outside the grid sets the
\* phase to gameOver and leaves snake, score, food and direction unchanged.
C2_WallCollision ==
    [][(TickStep /\ gameState = "playing" /\ ~InGrid(NextHead))
          => /\ gameState' = "gameOver"
             /\ UNCHANGED << snake, score, food, direction >>]_vars

\* a wall collision has just ended a game with a snake of two or more segments
C2_Witness ==
    /\ lastEvent = "tick" /\ gameState = "gameOver"
    /\ ~InGrid(NextHead) /\ Len(snake) >= 2

\* C3: a tick in phase playing whose in-grid new head is on any segment of
\* the snake, the last one included, sets the phase to gameOver and leaves
\* snake, food and score unchanged.
C3_SelfCollision ==
    [][(TickStep /\ gameState = "playing" /\ InGrid(NextHead) /\ OnSnake(NextHead))
          => /\ gameState' = "gameOver"
             /\ UNCHANGED << snake, food, score >>]_vars

\* a collision with the last segment has just ended a game
C3_Witness ==
    /\ lastEvent = "tick" /\ gameState = "gameOver"
    /\ InGrid(NextHead) /\ Len(snake) >= 2 /\ NextHead = snake[Len(snake)]

\* C4: in every reachable state the food is on no segment of the snake.
C4_FoodOffSnake ==
    \A i \in 1..Len(snake) : snake[i] # food

\* food has been relocated while a segment sat on a cell the sampler can draw
C4_Witness ==
    /\ lastEvent = "tick" /\ Len(snake) >= 2 /\ food # INITIAL_FOOD
    /\ \E i \in 1..Len(snake) : snake[i].x \in RandomCoord /\ snake[i].y \in RandomCoord

\* C5: a tick in phase playing whose new head is in the grid, off the snake
\* and on the food prepends the head to the whole snake, adds 10 to the
\* score, moves the food to a grid cell off the new snake and stays playing.
C5_EatingStep ==
    [][(TickStep /\ gameState = "playing" /\ InGrid(NextHead)
          /\ ~OnSnake(NextHead) /\ NextHead = food)
          => /\ snake' = << NextHead >> \o snake
             /\ score' = score + 10
             /\ InGrid(food')
             /\ \A i \in 1..Len(snake') : snake'[i] # food'
             /\ gameState' = "playing"]_vars

\* a snake that has eaten twice
C5_Witness ==
    lastEvent = "tick" /\ gameState = "playing" /\ score = 20 /\ Len(snake) = 3

\* C6: a tick in phase playing whose new head is in the grid, off the snake
\* and off the food prepends the head and drops the last segment, leaving
\* score, food, direction and phase unchanged.
C6_NonEatingStep ==
    [][(TickStep /\ gameState = "playing" /\ InGrid(NextHead)
          /\ ~OnSnake(NextHead) /\ NextHead # food)
          => /\ snake' = << NextHead >> \o SubSeq(snake, 1, Len(snake) - 1)
             /\ UNCHANGED << score, food, direction, gameState >>]_vars

\* a snake of three segments has just moved without eating, in the food's column
C6_Witness ==
    /\ lastEvent = "tick" /\ gameState = "playing" /\ Len(snake) = 3
    /\ snake[1] = [x |-> snake[2].x + applied.x, y |-> snake[2].y + applied.y]
    /\ snake[1].x = food.x

\* C7: while playing, a movement key on the axis of the current direction
\* leaves the direction unchanged, a perpendicular one sets the direction to
\* its vector; snake, food, score and phase are unchanged either way.
C7_DirectionRejection ==
    gameState = "playing" =>
        \A key \in MoveKeys :
            LET t == handleKeyPress(State, key) IN
            /\ SameAxis(KeyVector(key), direction) => t.direction = direction
            /\ ~SameAxis(KeyVector(key), direction) => t.direction = KeyVector(key)
            /\ t.snake = snake /\ t.food = food /\ t.score = score
            /\ t.gameState = gameState

\* a key has turned a moving snake of two or more segments
C7_Witness ==
    /\ lastEvent = "key" /\ gameState = "playing" /\ Len(snake) >= 2
    /\ applied # NoDir /\ ~SameAxis(direction, applied)

\* C8: startGame from menu or gameOver yields the initial snake, food,
\* direction and score in phase playing, and startGame applied to its own
\* result changes nothing.
C8_Restart ==
    [][(lastEvent' \in {"start", "restart"} /\ gameState \in {"menu", "gameOver"})
          => /\ snake' = << [x |-> 10, y |-> 10] >>
             /\ food' = [x |-> 15, y |-> 15]
             /\ direction' = [x |-> 0, y |-> -1]
             /\ score' = 0
             /\ gameState' = "playing"
             /\ startGame(State') = State']_vars

\* a game has been restarted after a game over
C8_Witness ==
    lastEvent = "restart" /\ gameState = "playing" /\ snake = INITIAL_SNAKE

\* C9: the phase changes only along menu->playing, playing->paused,
\* paused->playing, playing->gameOver and gameOver->playing.
LifecycleEdges ==
    { << "menu", "playing" >>, << "playing", "paused" >>, << "paused", "playing" >>,
      << "playing", "gameOver" >>, << "gameOver", "playing" >> }

C9_Lifecycle ==
    [][gameState' # gameState => << gameState, gameState' >> \in LifecycleEdges]_vars

\* a game in motion has been paused
C9_Witness ==
    lastEvent = "space" /\ gameState = "paused" /\ applied # NoDir

\* C10: a tick delivered while the phase is menu, paused or gameOver leaves
\* snake, food, score, direction and phase unchanged.
C10_TickOnlyWhilePlaying ==
    [][(TickStep /\ gameState # "playing")
          => UNCHANGED << snake, food, score, direction, gameState >>]_vars

\* a tick has run during a pause whose next move would have been legal
C10_Witness ==
    /\ lastEvent = "tick" /\ gameState = "paused"
    /\ InGrid(NextHead) /\ ~OnSnake(NextHead)

\* C11: Space while playing sets the phase to paused, Space while paused
\* sets it to playing, and either leaves snake, food, direction and score
\* unchanged.
C11_SpaceToggles ==
    [][(lastEvent' = "space" /\ gameState \in {"playing", "paused"})
          => /\ gameState' = (IF gameState = "playing" THEN "paused" ELSE "playing")
             /\ UNCHANGED << snake, food, direction, score >>]_vars

\* a game of a grown snake has been resumed
C11_Witness ==
    lastEvent = "space" /\ gameState = "playing" /\ Len(snake) >= 2

\* C12: while the phase is menu or gameOver every key event leaves snake,
\* food, direction, score and phase unchanged.
C12_KeysIgnoredOutsideGame ==
    [][(lastEvent' \in {"key", "space"} /\ gameState \in {"menu", "gameOver"})
          => UNCHANGED << snake, food, direction, score, gameState >>]_vars

\* a key has been pressed on the game over screen of a game with a score
C12_Witness ==
    lastEvent \in {"key", "space"} /\ gameState = "gameOver" /\ score > 0

\* C14: in every reachable state the snake has at least one segment, no two
\* segments are on the same cell, and every segment and the food are in the grid.
C14_WellFormed ==
    /\ Len(snake) >= 1
    /\ \A i, j \in 1..Len(snake) : i # j => snake[i] # snake[j]
    /\ \A i \in 1..Len(snake) : InGrid(snake[i])
    /\ InGrid(food)

\* a snake of three segments has moved along the top row
C14_Witness ==
    /\ lastEvent = "tick" /\ gameState = "playing" /\ Len(snake) = 3
    /\ \A i \in 1..3 : snake[i].y = 0

\* C15: score = 10 * (length of the snake - 1) in every reachable state;
\* score and length change only together, by +10 and +1 on a tick or to 0
\* and 1 on startGame.
C15_ScoreTracksLength ==
    /\ [](score = 10 * (Len(snake) - 1))
    /\ [][(score' # score \/ Len(snake') # Len(snake))
            => \/ /\ TickStep /\ score' = score + 10 /\ Len(snake') = Len(snake) + 1
               \/ /\ lastEvent' \in {"start", "restart"} /\ score' = 0 /\ Len(snake') = 1]_vars

\* a snake that has eaten once
C15_Witness ==
    lastEvent = "tick" /\ gameState = "playing" /\ score = 10 /\ Len(snake) = 2

\* C17: while the phase is paused a movement key (or an unbound key) leaves
\* direction, snake, food, score and phase unchanged.
C17_MoveKeysIgnoredWhilePaused ==
    [][(lastEvent' = "key" /\ gameState = "paused")
          => UNCHANGED << direction, snake, food, score, gameState >>]_vars

\* a key other than Space has been pressed during the pause of a moving game
C17_Witness ==
    lastEvent = "key" /\ gameState = "paused" /\ applied # NoDir

\* generateFood is running and some grid cell is off the grown snake
FreeCellExists == GridCells \ Segments(GrownSnake) # {}

\* C13: food placement returns whenever a grid cell is free of the grown
\* snake, and never returns when the grown snake fills the grid.
C13_FoodPlacementTermination ==
    /\ (genPc # "idle" /\ FreeCellExists) ~> (genPc = "idle")
    /\ [][(genPc # "idle" /\ ~FreeCellExists) => genPc' # "idle"]_vars

\* food placement has returned the only free cell of the grid
C13_Witness ==
    /\ genPc = "idle" /\ lastEvent = "tick" /\ Len(snake) = GRID_SIZE * GRID_SIZE - 1
    /\ \A i \in 1..Len(snake) : snake[i] # food

\* C16 as stated: without key events a playing game reaches gameOver within
\* GRID_SIZE ticks.
C16_ReachesGameOver ==
    <>(gameState = "gameOver" /\ ticks <= GRID_SIZE)

\* C16 amended: without key events a playing game makes at most GRID_SIZE
\* ticks, and it reaches gameOver unless a tick eats on the last free cell
\* of the grid and stays in food placement.
C16_GameOverOrSaturated ==
    /\ [](ticks <= GRID_SIZE)
    /\ <>(gameState = "gameOver" \/ (genPc # "idle" /\ ~FreeCellExists))

\* a run that needed all GRID_SIZE ticks to end
C16_Witness ==
    gameState = "gameOver" /\ ticks = GRID_SIZE

====
